---- MODULE Spec2Model ----
(***************************************************************************)
(* A model of doclinger's Flask application (src/app.py): the upload       *)
(* handler, the conversion dispatcher /converted/<base_name>, and the      *)
(* side-channel JSON routes, over an explicit model of the temporary       *)
(* directory tree.                                                         *)
(*                                                                         *)
(* Strings that the code takes apart (file names, base names, techniques)  *)
(* are sequences of one-character strings, so rsplit, secure_filename and  *)
(* the f-string path construction are computed character by character.     *)
(* The file system is case-sensitive (POSIX), as os.path.exists is on the  *)
(* platforms the temporary directory lives on.                             *)
(*                                                                         *)
(* The development server runs each request in a thread of its own, so the *)
(* handlers interleave at their calls into the file system and into the    *)
(* libraries. A step of the model is one such call with the handler code   *)
(* up to the next one: a file opened for writing is created or truncated   *)
(* in one step and receives its content in later ones, each write call     *)
(* putting its bytes at the writer's own offset into whatever the file     *)
(* holds by then. A conversion reads its input file in the step of the     *)
(* library call that reads it. A file sent as a response is only opened by *)
(* the handler: the server reads it afterwards, one buffer in each step,   *)
(* at the reader's own offset into whatever the file holds by then, and    *)
(* the response is complete when a read finds the end of the file. The     *)
(* editor's handler reads its file itself, in the same way.                *)
(***************************************************************************)
EXTENDS Naturals, Sequences, FiniteSets, Bags

VARIABLES
    fs,        \* the temporary directory tree: path -> file content
    reqs,      \* the handlers in flight: a bag of their locals and positions
    resp,      \* the response the latest step sent, with the request it answers
    persisted, \* history: (base_name, technique) -> JSON of its last successful remote conversion
    ops        \* number of requests received so far

vars == <<fs, reqs, resp, persisted, ops>>

\* ------------------------------------------------------------------ bounds

\* Requests received in one behaviour.
MaxOps == 3

\* The clients. A client waits for the answer to its request before it sends
\* the next one, so as many handlers as there are clients run at once.
Clients == {"c1", "c2"}

\* ------------------------------------------------------------- characters

LowerLetters == <<"a","b","c","d","e","f","g","h","i","j","k","l","m",
                  "n","o","p","q","r","s","t","u","v","w","x","y","z">>

UpperLetters == <<"A","B","C","D","E","F","G","H","I","J","K","L","M",
                  "N","O","P","Q","R","S","T","U","V","W","X","Y","Z">>

Digits == {"0","1","2","3","4","5","6","7","8","9"}

Range(s) == {s[i] : i \in DOMAIN s}

\* str.lower() on one character.
LowerChar(c) ==
    IF c \in Range(UpperLetters)
    THEN LowerLetters[CHOOSE i \in DOMAIN UpperLetters : UpperLetters[i] = c]
    ELSE c

\* str.lower()
lower(s) == [i \in DOMAIN s |-> LowerChar(s[i])]

\* str.replace(old, new) for one-character old and new.
replace(s, old, new) == [i \in DOMAIN s |-> IF s[i] = old THEN new ELSE s[i]]

\* The ASCII characters str.split() separates at: space, \t, \n, \r, \f, and
\* the vertical tab and the separators 0x1c-0x1f (written by their codes).
Whitespace == {" ", "\t", "\n", "\r", "\f", "\\x0b", "\\x1c", "\\x1d", "\\x1e", "\\x1f"}

\* Length of the leading run of non-whitespace characters of s.
RECURSIVE WordLen(_)
WordLen(s) ==
    IF s = <<>> \/ Head(s) \in Whitespace THEN 0 ELSE 1 + WordLen(Tail(s))

\* str.split(): the maximal runs of non-whitespace characters.
RECURSIVE split(_)
split(s) ==
    IF s = <<>> THEN <<>>
    ELSE IF Head(s) \in Whitespace THEN split(Tail(s))
    ELSE LET n == WordLen(s)
         IN  <<SubSeq(s, 1, n)>> \o split(SubSeq(s, n + 1, Len(s)))

\* sep.join(words) for a one-character sep.
RECURSIVE join(_, _)
join(sep, words) ==
    IF words = <<>> THEN <<>>
    ELSE IF Len(words) = 1 THEN words[1]
    ELSE words[1] \o <<sep>> \o join(sep, Tail(words))

\* re.sub(r"[^A-Za-z0-9_.-]", "", s)
SafeChars == Range(LowerLetters) \cup Range(UpperLetters) \cup Digits \cup {"_", ".", "-"}

ascii_strip(s) == SelectSeq(s, LAMBDA c : c \in SafeChars)

\* str.lstrip(chars), str.rstrip(chars), str.strip(chars)
RECURSIVE lstrip(_, _)
lstrip(s, chars) ==
    IF s # <<>> /\ Head(s) \in chars THEN lstrip(Tail(s), chars) ELSE s

RECURSIVE rstrip(_, _)
rstrip(s, chars) ==
    IF s # <<>> /\ s[Len(s)] \in chars THEN rstrip(SubSeq(s, 1, Len(s) - 1), chars) ELSE s

strip(s, chars) == rstrip(lstrip(s, chars), chars)

\* Index of the last "." of s, 0 when s holds none.
LastDot(s) ==
    IF "." \in Range(s)
    THEN CHOOSE i \in DOMAIN s : s[i] = "." /\ \A j \in DOMAIN s : s[j] = "." => j <= i
    ELSE 0

\* s.rsplit('.', 1)[0]: s up to its last dot, all of s when it holds none.
rsplit_head(s) == IF LastDot(s) = 0 THEN s ELSE SubSeq(s, 1, LastDot(s) - 1)

\* s.rsplit('.', 1)[1], for an s that holds a dot.
rsplit_tail(s) == SubSeq(s, LastDot(s) + 1, Len(s))

\* Non-ASCII characters, written by their code points: e with acute accent,
\* the no-break space, and two CJK characters.
NonAscii == {"\\u00e9", "\\u00a0", "\\u65e5", "\\u672c"}

\* unicodedata.normalize("NFKD", c).encode("ascii", "ignore") on one
\* character: an accented letter keeps its base letter, the no-break space
\* becomes a space, any other non-ASCII character is dropped.
AsciiOfChar(c) ==
    IF c = "\\u00e9" THEN <<"e">>
    ELSE IF c = "\\u00a0" THEN <<" ">>
    ELSE IF c \in NonAscii THEN <<>>
    ELSE <<c>>

\* unicodedata.normalize("NFKD", s).encode("ascii", "ignore").decode("ascii")
RECURSIVE to_ascii(_)
to_ascii(s) == IF s = <<>> THEN <<>> ELSE AsciiOfChar(Head(s)) \o to_ascii(Tail(s))

\* werkzeug.utils.secure_filename on POSIX (os.sep is "/", os.path.altsep is
\* None, os.name is not "nt"): the name is reduced to ASCII, separators
\* become spaces, whitespace runs become single underscores, every character
\* outside [A-Za-z0-9_.-] is dropped, and leading and trailing dots and
\* underscores are stripped.
secure_filename(filename) ==
    strip(ascii_strip(join("_", split(replace(to_ascii(filename), "/", " ")))), {".", "_"})

\* ------------------------------------------------------------ file system

\* upload_folder = tempfile.mkdtemp(); output_folder = upload_folder/converted
upload_folder == "upload"

output_folder == "converted"

\* s ends with suffix.
EndsWith(s, suffix) ==
    /\ Len(s) >= Len(suffix)
    /\ SubSeq(s, Len(s) - Len(suffix) + 1, Len(s)) = suffix

\* os.path.join(folder, name)
path_join(folder, name) == <<folder, name>>

\* os.path.exists(path)
exists(tree, path) == path \in DOMAIN tree

\* A file holds a sequence of units of bytes. A content (uploaded bytes, or
\* what a library returned) is a record with its length len in units; unit i
\* of content c is <<c, i>>.
Bytes(content) == [i \in 1..content.len |-> <<content, i>>]

\* A file just opened with mode 'w' (or being saved): truncated, nothing written yet.
Truncated == <<>>

\* A unit no writer wrote: the gap left by a write beyond the end of the file.
Hole == <<[kind |-> "hole", data |-> <<>>, len |-> 1], 1>>

\* The numbers of units one write call may carry.
Pieces == {1, 2, 3}

\* dict[key] = value
put(map, key, value) ==
    [k \in DOMAIN map \cup {key} |-> IF k = key THEN value ELSE map[k]]

\* open(path, 'w'): the file is created, or truncated where it lies.
open_for_writing(tree, path) == put(tree, path, Truncated)

\* What one write call leaves in a file: the bytes of `piece` from offset
\* off on, around them what the file held, and a gap where the file ended
\* before off.
write_at(file, off, piece) ==
    LET end == IF Len(file) > off + Len(piece) THEN Len(file) ELSE off + Len(piece)
    IN  [i \in 1..end |->
            IF i > off /\ i <= off + Len(piece) THEN piece[i - off]
            ELSE IF i <= Len(file) THEN file[i]
            ELSE Hole]

\* One write call on the open file at path, by a writer that has written off
\* units so far: the next n units of content.
write(tree, path, content, off, n) ==
    [tree EXCEPT ![path] = write_at(tree[path], off, SubSeq(Bytes(content), off + 1, off + n))]

\* One read call on an open file by a reader that has read off units so
\* far: the next unit the file holds now, nothing at or after its end.
read_at(file, off) == IF Len(file) > off THEN <<file[off + 1]>> ELSE <<>>

\* The bytes a client uploads.
Payloads == {"p1", "p2"}

\* The first document is two units long, the second one unit.
PdfFile(p) == [kind |-> "pdf", data |-> <<p>>, len |-> IF p = "p1" THEN 2 ELSE 1]

\* ------------------------------------------------------------------ names

DotPdf == <<".", "p", "d", "f">>

DotPng == <<".", "p", "n", "g">>

DotMd == <<".", "m", "d">>

DotJson == <<".", "j", "s", "o", "n">>

ALLOWED_EXTENSIONS == {<<"p", "d", "f">>}

\* allowed_file without the test of the extension.
allowed_file_any_extension(filename) == "." \in Range(filename)

allowed_file(filename) ==
    /\ "." \in Range(filename)
    /\ lower(rsplit_tail(filename)) \in ALLOWED_EXTENSIONS

\* File names a client sends in the multipart field `document`.
Filenames ==
    { <<"a", ".", "p", "d", "f">>,
      <<"A", ".", "P", "D", "F">>,
      <<".", "p", "d", "f">>,
      <<"/", "a", ".", "p", "d", "f">>,
      <<"\\u00e9", "\t", "b", ".", "p", "d", "f">>,
      <<"a", ".", "t", "x", "t">>,
      <<"a">>,
      <<>> }

\* Technique strings a client sends in the query parameter `technique`.
default == <<"d","e","f","a","u","l","t">>

easyocr == <<"e","a","s","y","o","c","r">>

tesseract == <<"t","e","s","s","e","r","a","c","t">>

easyocr_from_png == easyocr \o <<"_","f","r","o","m","_","p","n","g">>

docling_serve == <<"d","o","c","l","i","n","g","_","s","e","r","v","e">>

default_docling_serve == default \o <<"_">> \o docling_serve

easyocr_docling_serve == easyocr \o <<"_">> \o docling_serve

unknown_technique == <<"o","c","r">>

Techniques ==
    { default, easyocr, tesseract, easyocr_from_png,
      default_docling_serve, easyocr_docling_serve, unknown_technique }

\* Values of the query parameter `format`.
Formats == {"png", "markdown", "xml"}

\* Base names requested on /converted/<base_name>.
BaseNames == { <<"a">>, <<"A">> }

\* (base_name, technique) path segments requested on /docling_json and /editor.
JsonQueries ==
    { <<(<<"a">>), default_docling_serve>>,
      <<(<<"a">>), easyocr_docling_serve>>,
      <<(<<"a", "_">> \o default), docling_serve>> }

\* Status codes the docling-serve backend answers with.
BackendStatuses == {200, 201, 500}

\* ---------------------------------------------------- external libraries

\* What the libraries compute is opaque; each result is tagged with the
\* source bytes and the pathway that produced it, so that two results are
\* equal only when they come from the same input by the same pathway.

\* src is the bytes read from the input file. A library returns the same
\* result for the same input; the results' lengths are taken to grow with
\* the input (one unit from an input of at most one unit, two from a longer
\* one), and the remote backend's Markdown to be one unit longer than the
\* in-process converters'.

NoBody == [kind |-> "none", data |-> <<>>, len |-> 0]

SizeFrom(src) == IF Len(src) > 1 THEN 2 ELSE 1

\* pdf2image.convert_from_path(...)[0] saved as PNG, size=(600, None)
Thumbnail(src) == [kind |-> "png", data |-> <<src>>, len |-> SizeFrom(src)]

\* pdf2image.convert_from_path(...)[0] saved as PNG at full size
PageImage(src) == [kind |-> "image", data |-> <<src>>, len |-> SizeFrom(src)]

\* result.document.export_to_markdown() of the file docling was given (the
\* PDF, or the page image), or the backend's document.md_content
Markdown(src, technique) ==
    [kind |-> "md", data |-> <<src, technique>>,
     len |-> SizeFrom(src) + (IF EndsWith(technique, docling_serve) THEN 1 ELSE 0)]

\* json.dump of the backend's document.json_content
JsonDocument(src, technique) ==
    [kind |-> "json", data |-> <<src, technique>>, len |-> SizeFrom(src)]

\* The body of a response that sends a file's bytes.
FileBody(bytes) == [kind |-> "file", data |-> bytes, len |-> Len(bytes)]

\* The page built around markdown.markdown(markdown_text)
md_to_html(text) == [kind |-> "html", data |-> <<text>>, len |-> 1]

\* The editor.html template with the JSON file's text inlined
editor_page(bytes) == [kind |-> "editor", data |-> <<bytes>>, len |-> 1]

\* ----------------------------------------------------------- initial state

NoResponse == [route |-> "none", status |-> 0]

Init ==
    /\ fs = [p \in {} |-> NoBody]
    /\ reqs = EmptyBag
    /\ resp = NoResponse
    /\ persisted = [k \in {} |-> NoBody]
    /\ ops = 0

\* ------------------------------------------------------- handlers in flight

\* The handler `cur` (a bag of one handler in flight, or EmptyBag for a
\* request that has just arrived) ends with this response.
Finish(cur, response) ==
    /\ resp' = response
    /\ reqs' = reqs (-) cur

\* The handler `cur` goes on at position pc with the locals r.
Continue(cur, r, pc) ==
    /\ resp' = NoResponse
    /\ reqs' = (reqs (-) cur) (+) SetToBag({[r EXCEPT !.pc = pc]})

\* ------------------------------------------------------------------ routes

\* GET /
upload_form ==
    /\ ops < MaxOps
    /\ ops' = ops + 1
    /\ resp' = [route |-> "form", status |-> 200]
    /\ UNCHANGED <<fs, reqs, persisted>>

UploadResponse(present, sent, status, filename) ==
    [route |-> "upload", present |-> present, sent |-> sent, status |-> status,
     filename |-> filename, base_name |-> rsplit_head(filename)]

\* POST /upload up to the start of file.save. `present`: the request has a
\* field `document`; `filename`: its file name; `p`: its bytes. file.save
\* opens the destination for writing, which creates or truncates it.
upload_file(present, filename, p) ==
    /\ ops < MaxOps
    /\ BagCardinality(reqs) < Cardinality(Clients)
    /\ ops' = ops + 1
    /\ persisted' = persisted
    /\ IF ~present
       THEN /\ Finish(EmptyBag, UploadResponse(present, <<>>, 400, <<>>))
            /\ fs' = fs
       ELSE IF filename = <<>>
       THEN /\ Finish(EmptyBag, UploadResponse(present, filename, 400, <<>>))
            /\ fs' = fs
       ELSE IF allowed_file(filename)
       THEN LET name == secure_filename(filename)
                file_path == path_join(upload_folder, name)
            IN  /\ fs' = open_for_writing(fs, file_path)
                /\ Continue(EmptyBag,
                            [pc |-> "start", sent |-> filename, filename |-> name,
                             payload |-> p, off |-> 0],
                            "save")
       ELSE /\ Finish(EmptyBag, UploadResponse(present, filename, 400, <<>>))
            /\ fs' = fs

\* The handler r has written all of content once it writes n more units.
Written(r, content, n) == r.off + n = content.len

\* The handler r after a write call of n units.
Advance(r, content, n) ==
    [r EXCEPT !.off = IF Written(r, content, n) THEN 0 ELSE r.off + n]

\* The rest of file.save: one write call of its copy loop, n units of the
\* uploaded bytes. After the last one upload_file renders the confirmation.
save_upload(r, n) ==
    /\ r.pc = "save"
    /\ n \in 1..(PdfFile(r.payload).len - r.off)
    /\ fs' = write(fs, path_join(upload_folder, r.filename), PdfFile(r.payload), r.off, n)
    /\ IF Written(r, PdfFile(r.payload), n)
       THEN Finish(SetToBag({r}), UploadResponse(TRUE, r.sent, 200, r.filename))
       ELSE Continue(SetToBag({r}), Advance(r, PdfFile(r.payload), n), "save")
    /\ UNCHANGED <<persisted, ops>>

json_name(base_name, technique) == base_name \o <<"_">> \o technique \o DotJson

\* The arguments of a request on /docling_json or /editor, and for its
\* reader (the server, or the editor's handler) the units it has read (off)
\* and their bytes (read). ran
\* and last record whether a remote conversion of this base name with this
\* technique has completed when the request arrives, and the JSON of the
\* latest one.
JsonRequest(route, base_name, technique) ==
    [pc |-> "start", route |-> route, base_name |-> base_name, technique |-> technique,
     ran |-> <<base_name, technique>> \in DOMAIN persisted,
     last |-> IF <<base_name, technique>> \in DOMAIN persisted
              THEN persisted[<<base_name, technique>>] ELSE NoBody,
     off |-> 0, read |-> <<>>]

JsonResponse(q, status, body) ==
    [route |-> q.route, base_name |-> q.base_name, technique |-> q.technique,
     status |-> status, body |-> body, ran |-> q.ran, last |-> q.last]

\* GET /docling_json/<base_name>/<technique>, the handler: the existence
\* check, and send_file, which opens the file and returns the response the
\* server will stream.
serve_docling_json(base_name, technique) ==
    /\ ops < MaxOps
    /\ BagCardinality(reqs) < Cardinality(Clients)
    /\ ops' = ops + 1
    /\ UNCHANGED <<fs, persisted>>
    /\ LET q == JsonRequest("docling_json", base_name, technique)
           json_path == path_join(upload_folder, json_name(base_name, technique))
       IN  IF ~exists(fs, json_path)
           THEN Finish(EmptyBag, JsonResponse(q, 404, NoBody))
           ELSE Continue(EmptyBag, q, "stream_json")

\* The server sends the response of serve_docling_json: one read call on
\* the open JSON file. The body ends when a read finds the end of the file.
stream_json(q) ==
    /\ q.pc = "stream_json"
    /\ LET json_path == path_join(upload_folder, json_name(q.base_name, q.technique))
           buffer == read_at(fs[json_path], q.off)
       IN  IF buffer = <<>>
           THEN Finish(SetToBag({q}), JsonResponse(q, 200, FileBody(q.read)))
           ELSE Continue(SetToBag({q}),
                         [q EXCEPT !.off = q.off + 1, !.read = q.read \o buffer],
                         "stream_json")
    /\ UNCHANGED <<fs, persisted, ops>>

\* GET /editor/<base_name>/<technique> up to file.read(): the existence
\* check and open(json_path, 'r'). Opening for reading changes nothing and
\* no file is ever removed, so the two calls are one step.
docling_json_editor(base_name, technique) ==
    /\ ops < MaxOps
    /\ BagCardinality(reqs) < Cardinality(Clients)
    /\ ops' = ops + 1
    /\ UNCHANGED <<fs, persisted>>
    /\ LET q == JsonRequest("editor", base_name, technique)
           json_path == path_join(upload_folder, json_name(base_name, technique))
       IN  IF ~exists(fs, json_path)
           THEN Finish(EmptyBag, JsonResponse(q, 404, NoBody))
           ELSE Continue(EmptyBag, q, "read_json")

\* file.read() of docling_json_editor: one read call on the open JSON file.
\* When a read finds the end of the file the handler renders the page
\* around the text it has read.
read_json(q) ==
    /\ q.pc = "read_json"
    /\ LET json_path == path_join(upload_folder, json_name(q.base_name, q.technique))
           buffer == read_at(fs[json_path], q.off)
       IN  IF buffer = <<>>
           THEN Finish(SetToBag({q}), JsonResponse(q, 200, editor_page(q.read)))
           ELSE Continue(SetToBag({q}),
                         [q EXCEPT !.off = q.off + 1, !.read = q.read \o buffer],
                         "read_json")
    /\ UNCHANGED <<fs, persisted, ops>>

\* ------------------------------------------------- /converted/<base_name>

\* A response of /converted, with the request's parameters, the text its own
\* conversion produced (own) and the backend's status code (0: none received).
ConvertedResponse(r, status, body) ==
    [route |-> "converted", base_name |-> r.base_name, format |-> r.format,
     render |-> r.render, technique |-> r.technique,
     status |-> status, body |-> body, own |-> r.text, backend |-> r.backend]

\* The handler's arguments and locals: src is the bytes it read of the source
\* PDF, image the page image of easyocr_from_png, text its markdown_text or
\* thumbnail, backend the backend's status code, off the units it has
\* written to the file it has open (then the units the server has read of
\* the file it sends), read the bytes of the units read.
Request(base_name, file_format, render, technique) ==
    [pc |-> "start", base_name |-> base_name, format |-> file_format,
     render |-> render, technique |-> technique,
     src |-> <<>>, image |-> NoBody, text |-> NoBody, backend |-> 0, off |-> 0,
     read |-> <<>>]

\* file_path / pdf_path
source_path(r) == path_join(upload_folder, r.base_name \o DotPdf)

\* image_path = f"{pdf_path}.png" with the suffix left out.
page_image_path_no_suffix(pdf_path) == pdf_path

\* image_path = f"{pdf_path}.png"
page_image_path(pdf_path) == path_join(pdf_path[1], pdf_path[2] \o DotPng)

\* json_path
json_path_of(r) == path_join(upload_folder, json_name(r.base_name, r.technique))

\* response.status_code != 200 read as "not a 2xx status".
backend_failed_non_2xx(status_code) == status_code \notin 200..299

\* response.status_code != 200
backend_failed(status_code) == status_code # 200

\* extract_markdown_from_pdf's dispatch on `technique`, up to the branch's
\* first library call: the in-process branches go on to read the PDF, the
\* remote ones have opened it and go on to post it, any other technique is
\* rejected.
extract_markdown_from_pdf(r) ==
    IF r.technique = default
    THEN Continue(EmptyBag, r, "convert")
    ELSE IF r.technique = default_docling_serve
    THEN Continue(EmptyBag, r, "post")
    ELSE IF r.technique = easyocr
    THEN Continue(EmptyBag, r, "convert")
    ELSE IF r.technique = easyocr_docling_serve
    THEN Continue(EmptyBag, r, "post")
    ELSE IF r.technique = easyocr_from_png
    THEN Continue(EmptyBag, r, "rasterize")
    ELSE Finish(EmptyBag, ConvertedResponse(r, 400, NoBody))

\* serve_converted_file with the dispatch on `format` rejecting an unsupported
\* format before the source PDF is looked up.
serve_converted_file_format_first(base_name, file_format, render, technique) ==
    /\ ops < MaxOps
    /\ BagCardinality(reqs) < Cardinality(Clients)
    /\ ops' = ops + 1
    /\ UNCHANGED <<fs, persisted>>
    /\ LET r == Request(base_name, file_format, render, technique)
       IN  IF file_format \notin {"png", "markdown"}
           THEN Finish(EmptyBag, ConvertedResponse(r, 400, NoBody))
           ELSE IF ~exists(fs, source_path(r))
           THEN Finish(EmptyBag, ConvertedResponse(r, 404, NoBody))
           ELSE IF file_format = "png"
           THEN Continue(EmptyBag, r, "rasterize")
           ELSE extract_markdown_from_pdf(r)

\* serve_converted_file from the request's arrival to its first library
\* call: the existence check and the dispatch on `format` (and, for
\* markdown, on `technique`). No file is read or written yet.
serve_converted_file(base_name, file_format, render, technique) ==
    /\ ops < MaxOps
    /\ BagCardinality(reqs) < Cardinality(Clients)
    /\ ops' = ops + 1
    /\ UNCHANGED <<fs, persisted>>
    /\ LET r == Request(base_name, file_format, render, technique)
       IN  IF ~exists(fs, source_path(r))
           THEN Finish(EmptyBag, ConvertedResponse(r, 404, NoBody))
           ELSE IF file_format = "png"
           THEN Continue(EmptyBag, r, "rasterize")
           ELSE IF file_format = "markdown"
           THEN extract_markdown_from_pdf(r)
           ELSE Finish(EmptyBag, ConvertedResponse(r, 400, NoBody))

\* convert_from_path(file_path, ...): the PDF is read as it is now. `pages`
\* is the number of images it yields; with none (or when it raises on bytes
\* it cannot read) the handler ends with 500.
rasterize(r, pages) ==
    /\ r.pc = "rasterize"
    /\ LET src == fs[source_path(r)]
       IN  IF pages = 0
           THEN Finish(SetToBag({r}), ConvertedResponse(r, 500, NoBody))
           ELSE IF r.format = "png"
           THEN Continue(SetToBag({r}), [r EXCEPT !.src = src, !.text = Thumbnail(src)],
                         "open_png")
           ELSE Continue(SetToBag({r}), [r EXCEPT !.src = src, !.image = PageImage(src)],
                         "open_image")
    /\ UNCHANGED <<fs, persisted, ops>>

\* images[0].save(image_path, 'PNG') of easyocr_from_png, its start: the
\* file beside the PDF is created or truncated.
open_page_image(r) ==
    /\ r.pc = "open_image"
    /\ fs' = open_for_writing(fs, page_image_path(source_path(r)))
    /\ Continue(SetToBag({r}), r, "write_image")
    /\ UNCHANGED <<persisted, ops>>

\* The rest of images[0].save(image_path, 'PNG'): one write call, n units of
\* the image.
write_page_image(r, n) ==
    /\ r.pc = "write_image"
    /\ n \in 1..(r.image.len - r.off)
    /\ fs' = write(fs, page_image_path(source_path(r)), r.image, r.off, n)
    /\ Continue(SetToBag({r}), Advance(r, r.image, n),
                IF Written(r, r.image, n) THEN "convert_image" ELSE "write_image")
    /\ UNCHANGED <<persisted, ops>>

\* converter.convert(...) and export_to_markdown(): the PDF (default,
\* easyocr) or the page image (easyocr_from_png) is read as it is now. The
\* uploaded bytes need not be a document docling can read: `ok` tells
\* whether the conversion returns or raises, which the handler does not
\* catch (500).
convert(r, ok) ==
    /\ r.pc \in {"convert", "convert_image"}
    /\ LET input == IF r.pc = "convert"
                    THEN fs[source_path(r)]
                    ELSE fs[page_image_path(source_path(r))]
       IN  IF ok
           THEN Continue(SetToBag({r}),
                         [r EXCEPT !.src = IF r.pc = "convert" THEN input ELSE r.src,
                                   !.text = Markdown(input, r.technique)],
                         "open_md")
           ELSE Finish(SetToBag({r}), ConvertedResponse(r, 500, NoBody))
    /\ UNCHANGED <<fs, persisted, ops>>

\* httpx posts the opened PDF to the backend: its bytes are read as they
\* are now.
post_to_backend(r) ==
    /\ r.pc = "post"
    /\ Continue(SetToBag({r}), [r EXCEPT !.src = fs[source_path(r)]], "await")
    /\ UNCHANGED <<fs, persisted, ops>>

\* The backend's answer arrives: the status test, and with status 200 the
\* extraction of md_content and json_content from the answer.
backend_response(r, status_code) ==
    /\ r.pc = "await"
    /\ LET r2 == [r EXCEPT !.backend = status_code]
       IN  IF backend_failed(status_code)
           THEN Finish(SetToBag({r}), ConvertedResponse(r2, 500, NoBody))
           ELSE Continue(SetToBag({r}),
                         [r2 EXCEPT !.text = Markdown(r.src, r.technique)], "open_json")
    /\ UNCHANGED <<fs, persisted, ops>>

\* open(json_path, 'w'): the side-channel file is created or truncated.
open_json(r) ==
    /\ r.pc = "open_json"
    /\ fs' = open_for_writing(fs, json_path_of(r))
    /\ Continue(SetToBag({r}), r, "write_json")
    /\ UNCHANGED <<persisted, ops>>

\* json_content as json.dump serializes it.
json_content(r) == JsonDocument(r.src, r.technique)

\* json.dump(json_content, f) and the file's close: one write call, n units
\* of the JSON text. After the last one extract_markdown_from_pdf returns.
dump_json(r, n) ==
    /\ r.pc = "write_json"
    /\ n \in 1..(json_content(r).len - r.off)
    /\ fs' = write(fs, json_path_of(r), json_content(r), r.off, n)
    /\ persisted' = IF Written(r, json_content(r), n)
                    THEN put(persisted, <<r.base_name, r.technique>>, json_content(r))
                    ELSE persisted
    /\ Continue(SetToBag({r}), Advance(r, json_content(r), n),
                IF Written(r, json_content(r), n) THEN "open_md" ELSE "write_json")
    /\ ops' = ops

\* os.path.join(OUTPUT_FOLDER, f"{base_name}.png") / f"{base_name}.md"
artifact_path(r) ==
    path_join(output_folder, r.base_name \o (IF r.format = "png" THEN DotPng ELSE DotMd))

\* open(markdown_path, 'w') / the start of images[0].save(image_path): the
\* artifact file is created or truncated.
open_artifact(r) ==
    /\ r.pc \in {"open_md", "open_png"}
    /\ fs' = open_for_writing(fs, artifact_path(r))
    /\ Continue(SetToBag({r}), r, IF r.pc = "open_md" THEN "write_md" ELSE "write_png")
    /\ UNCHANGED <<persisted, ops>>

\* f.write(markdown_text) and the file's close / the rest of
\* images[0].save: one write call, n units of the content. After the last
\* one, with render set, the handler answers from markdown_text, touching
\* no shared state.
write_artifact(r, n) ==
    /\ r.pc \in {"write_md", "write_png"}
    /\ n \in 1..(r.text.len - r.off)
    /\ fs' = write(fs, artifact_path(r), r.text, r.off, n)
    /\ IF ~Written(r, r.text, n)
       THEN Continue(SetToBag({r}), Advance(r, r.text, n), r.pc)
       ELSE IF r.pc = "write_md" /\ r.render
       THEN Finish(SetToBag({r}), ConvertedResponse(r, 200, md_to_html(r.text)))
       ELSE Continue(SetToBag({r}), Advance(r, r.text, n), "send")
    /\ UNCHANGED <<persisted, ops>>

\* send_from_directory(OUTPUT_FOLDER, name): the artifact is opened and the
\* handler returns the response the server will stream.
send_from_directory(r) ==
    /\ r.pc = "send"
    /\ IF exists(fs, artifact_path(r))
       THEN Continue(SetToBag({r}), r, "stream")
       ELSE Finish(SetToBag({r}), ConvertedResponse(r, 404, NoBody))
    /\ UNCHANGED <<fs, persisted, ops>>

\* The server sends the response of serve_converted_file: one read call on
\* the open artifact. The body ends when a read finds the end of the file.
stream_artifact(r) ==
    /\ r.pc = "stream"
    /\ LET buffer == read_at(fs[artifact_path(r)], r.off)
       IN  IF buffer = <<>>
           THEN Finish(SetToBag({r}), ConvertedResponse(r, 200, FileBody(r.read)))
           ELSE Continue(SetToBag({r}),
                         [r EXCEPT !.off = r.off + 1, !.read = r.read \o buffer],
                         "stream")
    /\ UNCHANGED <<fs, persisted, ops>>

\* ---------------------------------------------------------- specification

\* The bodies sent: every name is sent with the document p1, and the names
\* a.pdf and /a.pdf also with the shorter document p2 once a file a.pdf is
\* in the upload area, to replace it.
NamesOfA == {filename \in Filenames : secure_filename(filename) = <<"a">> \o DotPdf}

PayloadsFor(filename) ==
    IF filename \in NamesOfA /\ exists(fs, path_join(upload_folder, <<"a">> \o DotPdf))
    THEN Payloads
    ELSE {"p1"}

\* The query strings sent: render=true accompanies format=markdown with the
\* default technique; the technique is varied on the requests for the
\* document a, with format=markdown over every technique and with format=png
\* over the default one and an unrecognized one.
RendersFor(file_format, technique) ==
    IF file_format = "markdown" /\ technique = default THEN BOOLEAN ELSE {FALSE}

TechniquesFor(base_name, file_format) ==
    IF base_name = <<"a">> /\ file_format = "markdown" THEN Techniques
    ELSE IF base_name = <<"a">> /\ file_format = "png" THEN {default, unknown_technique}
    ELSE {default}

Next ==
    \/ upload_form
    \/ \E filename \in Filenames : \E p \in PayloadsFor(filename) :
          upload_file(TRUE, filename, p)
    \/ upload_file(FALSE, <<>>, "p1")
    \/ \E r \in BagToSet(reqs), n \in Pieces : save_upload(r, n)
    \/ \E base_name \in BaseNames, file_format \in Formats :
          \E technique \in TechniquesFor(base_name, file_format) :
             \E render \in RendersFor(file_format, technique) :
                serve_converted_file(base_name, file_format, render, technique)
    \/ \E r \in BagToSet(reqs), pages \in {0, 1} : rasterize(r, pages)
    \/ \E r \in BagToSet(reqs) : open_page_image(r)
    \/ \E r \in BagToSet(reqs), n \in Pieces : write_page_image(r, n)
    \/ \E r \in BagToSet(reqs), ok \in BOOLEAN : convert(r, ok)
    \/ \E r \in BagToSet(reqs) : post_to_backend(r)
    \/ \E r \in BagToSet(reqs), status_code \in BackendStatuses :
          backend_response(r, status_code)
    \/ \E r \in BagToSet(reqs) : open_json(r)
    \/ \E r \in BagToSet(reqs), n \in Pieces : dump_json(r, n)
    \/ \E r \in BagToSet(reqs) : open_artifact(r)
    \/ \E r \in BagToSet(reqs), n \in Pieces : write_artifact(r, n)
    \/ \E r \in BagToSet(reqs) : send_from_directory(r)
    \/ \E r \in BagToSet(reqs) : stream_artifact(r)
    \/ \E q \in JsonQueries : serve_docling_json(q[1], q[2])
    \/ \E q \in BagToSet(reqs) : stream_json(q)
    \/ \E q \in JsonQueries : docling_json_editor(q[1], q[2])
    \/ \E q \in BagToSet(reqs) : read_json(q)

Spec == Init /\ [][Next]_vars

\* ----------------------------------------------------------------- claims

\* Where /converted/<base_name> looks for the source PDF.
SourcePath(base_name) == <<upload_folder, base_name \o DotPdf>>

\* The kinds of content a file holds bytes of.
KindsIn(bytes) == {bytes[i][1].kind : i \in DOMAIN bytes}

\* bytes is the complete content of one write: every unit of one content,
\* in order, and nothing else.
IsWhole(bytes) == bytes # <<>> /\ bytes = Bytes(bytes[1][1])

\* The files of the tree that hold bytes of an uploaded document.
StoredDocuments(tree) == {path \in DOMAIN tree : "pdf" \in KindsIn(tree[path])}

\* Handler r took a step: it arrived, went on, or ended.
Stepped(r) == CopiesIn(r, reqs') # CopiesIn(r, reqs)

\* An upload handler that stores under the file name `name` took a step.
UploadStepped(name) ==
    \E r \in BagToSet(reqs) \cup BagToSet(reqs') :
        r.pc = "save" /\ r.filename = name /\ Stepped(r)

\* The file names of the input set that the upload contract rejects: no
\* extension, an extension other than pdf, the empty name.
RejectedFilenames == { <<"a", ".", "t", "x", "t">>, <<"a">>, <<>> }

\* The six techniques the specification's table names.
NamedTechniques ==
    { default, easyocr, tesseract, easyocr_from_png,
      default_docling_serve, easyocr_docling_serve }

\* C1: every accepted upload is stored at <upload_area>/<base_name>.pdf,
\* base_name being the base name the confirmation returns (so that a later
\* GET /converted/<base_name> finds its source).
C1_AcceptedUploadStoredUnderBaseName ==
    (resp.route = "upload" /\ resp.status = 200) =>
        /\ exists(fs, SourcePath(resp.base_name))
        /\ "pdf" \in KindsIn(fs[SourcePath(resp.base_name)])

\* C2: a rejected POST /upload (no field `document`, an empty file name, an
\* extension other than pdf) answers 400 and leaves every file as it was.
C2_RejectedUploadChangesNothing ==
    [][ (resp'.route = "upload" /\ (~resp'.present \/ resp'.sent \in RejectedFilenames))
            => (resp'.status = 400 /\ fs' = fs) ]_vars

\* C2 witness: a.txt was just rejected while the upload area holds a document.
C2_Witness ==
    /\ resp.route = "upload"
    /\ resp.present
    /\ resp.sent = <<"a", ".", "t", "x", "t">>
    /\ resp.status = 400
    /\ StoredDocuments(fs) # {}

\* C3 as stated: a format other than png and markdown is answered 400
\* whether or not the source PDF exists.
C3_UnsupportedFormatAlways400 ==
    (resp.route = "converted" /\ resp.format \notin {"png", "markdown"})
        => resp.status = 400

\* C3 as amended: a format other than png and markdown is answered 400 when
\* the source PDF exists at the request's arrival and 404 when it does not.
C3_UnsupportedFormat400Or404 ==
    [][ (resp'.route = "converted" /\ resp'.format \notin {"png", "markdown"})
            => resp'.status = (IF exists(fs, SourcePath(resp'.base_name)) THEN 400 ELSE 404) ]_vars

\* C3 witness: format=xml was just answered 400 for a document that exists.
C3_Witness ==
    /\ resp.route = "converted"
    /\ resp.format = "xml"
    /\ resp.status = 400
    /\ exists(fs, SourcePath(resp.base_name))

\* C4, in its format=markdown case: for an existing source PDF a technique
\* outside the six named ones is answered 400, and each of the six named
\* techniques is not answered 400. (With another format the technique is
\* not read at all, so the claim's "whatever the format" fails there too.)
C4_TechniqueValidation ==
    (/\ resp.route = "converted"
     /\ resp.format = "markdown"
     /\ exists(fs, SourcePath(resp.base_name))) =>
        /\ resp.technique \notin NamedTechniques => resp.status = 400
        /\ resp.technique \in NamedTechniques => resp.status # 400

\* C5: GET /docling_json/<base_name>/<technique> answers 404 as long as no
\* conversion of that base name with that technique has succeeded, and
\* afterwards the JSON its latest successful conversion persisted.
C5_JsonKeyedByBaseNameAndTechnique ==
    resp.route = "docling_json" =>
        IF resp.ran
        THEN resp.status = 200 /\ resp.body = FileBody(Bytes(resp.last))
        ELSE resp.status = 404

\* C6 as stated: a remote technique's request fails with 500 exactly when
\* the backend's status is outside 200..299.
C6_Fails500IffNon2xx ==
    (resp.route = "converted" /\ resp.backend # 0)
        => (resp.status = 500 <=> resp.backend \notin 200..299)

\* C6 as amended: a backend status other than 200 fails the request with 500
\* in a step that writes no file, the request's steps before it (its arrival
\* and its post to the backend) write no file either, and a request whose
\* backend answered 200 is answered 200.
C6_Fails500IffNot200 ==
    [][ /\ (resp'.route = "converted" /\ resp'.backend # 0) =>
               IF resp'.backend # 200
               THEN resp'.status = 500 /\ fs' = fs
               ELSE resp'.status = 200
        /\ \A r \in BagToSet(reqs') :
               (r.pc \in {"post", "await"} /\ CopiesIn(r, reqs') > CopiesIn(r, reqs))
                   => fs' = fs
      ]_vars

\* C6 witness: the backend answered 201, the request failed with 500, and
\* the Markdown artifact of an earlier conversion is on disk.
C6_Witness ==
    /\ resp.route = "converted"
    /\ resp.backend = 201
    /\ resp.status = 500
    /\ exists(fs, <<output_folder, resp.base_name \o DotMd>>)

\* C7: a /converted request never sends back an artifact file that another
\* request has truncated or only partly written: what it sends is the
\* complete content of one write.
C7_NoPartialArtifactRead ==
    (resp.route = "converted" /\ resp.status = 200 /\ ~resp.render)
        => IsWhole(resp.body.data)

\* C8 as stated: no step changes or removes a stored document.
C8_StoredDocumentsNeverChange ==
    [][ \A path \in StoredDocuments(fs) :
            path \in DOMAIN fs' /\ fs'[path] = fs[path] ]_vars

\* C8 as amended: a file that holds bytes of an uploaded document is never
\* removed, and it changes only in the steps of an accepted upload whose
\* sanitized file name is the file's: the upload's arrival, which empties
\* the file, and the write calls of its save, which put the uploaded bytes
\* over what the file holds by then.
C8_OnlySameNameUploadReplaces ==
    [][ \A path \in StoredDocuments(fs) \cup StoredDocuments(fs') :
            /\ path \in DOMAIN fs => path \in DOMAIN fs'
            /\ (path \notin DOMAIN fs \/ fs'[path] # fs[path]) =>
                   /\ path[1] = upload_folder
                   /\ UploadStepped(path[2])
      ]_vars

\* C8 witness: an easyocr_from_png conversion has written its intermediate
\* image beside the stored document and has been answered.
C8_Witness ==
    /\ resp.route = "converted"
    /\ resp.technique = easyocr_from_png
    /\ resp.status = 200
    /\ exists(fs, SourcePath(resp.base_name))
    /\ exists(fs, <<upload_folder, resp.base_name \o DotPdf \o DotPng>>)

\* The sanitized names of uploaded documents: they end in .pdf in some
\* letter case, or are the bare word pdf.
IsDocumentName(name) ==
    EndsWith(lower(name), DotPdf) \/ lower(name) = <<"p", "d", "f">>

\* C9: the upload area holds only uploaded documents, and every other file
\* (every file a conversion request produces) lies in the output area.
C9_UploadAreaHoldsOnlyPdf ==
    \A path \in DOMAIN fs :
        /\ path[1] = upload_folder => IsDocumentName(path[2])
        /\ ~IsDocumentName(path[2]) => path[1] = output_folder

\* C10: a successful format=markdown request returns the Markdown its own
\* technique produced: as a rendered page with render=true, as the text itself
\* with render=false.
C10_ReturnsOwnMarkdown ==
    (resp.route = "converted" /\ resp.format = "markdown" /\ resp.status = 200) =>
        resp.body = (IF resp.render THEN md_to_html(resp.own) ELSE FileBody(Bytes(resp.own)))

====
